---- MODULE Spec2Model ----
(***************************************************************************)
(* A model of the validation engine of the sports management system        *)
(* (src/utils/validation.py) and of the game entry form that calls it      *)
(* (src/ui/game_form.py).                                                   *)
(*                                                                         *)
(* Python strings are sequences of one-character strings, so that strip(), *)
(* lower(), split(), int() and the regular expressions are computed on the *)
(* characters.  A Python Optional[list] is <<>> (None) or <<list>>; an      *)
(* Optional[int] is NoneId (None) or the integer.  A call's outcome is a    *)
(* record [exc, ret]: exc is "" when the call returned ret, else the name  *)
(* of the exception that ended it.                                         *)
(***************************************************************************)
EXTENDS Integers, Sequences, FiniteSets, TLC

VARIABLES
    pc,         \* "idle", or "done" once the operation `op` has been called
    op,         \* the operation last called
    args,       \* its arguments
    out,        \* its outcome [exc, ret]
    now,        \* the wall clock read by the call (datetime.now())
    form,       \* GameForm: the values of the six StringVars
    games,      \* the rows of the games table behind data_manager
    submit,     \* GameForm: what the last run of the add_game handler did
    admin_users,  \* the rows of the admin_users table behind data_manager
    auth,       \* the last call of register_admin or authenticate_admin
    app,        \* MainApplication and its login and registration windows
    attempt     \* RegisterWindow: what the last run of _attempt_register did

vars == <<pc, op, args, out, now, form, games, submit, admin_users, auth, app,
          attempt>>

callVars == <<pc, op, args, out>>

formVars == <<form, games, submit>>

authVars == <<admin_users, auth, app, attempt>>

-----------------------------------------------------------------------------
(* Characters and strings                                                  *)

UpperChars == <<"A","B","C","D","E","F","G","H","I","J","K","L","M",
                "N","O","P","Q","R","S","T","U","V","W","X","Y","Z">>
LowerChars == <<"a","b","c","d","e","f","g","h","i","j","k","l","m",
                "n","o","p","q","r","s","t","u","v","w","x","y","z">>
DigitChars == <<"0","1","2","3","4","5","6","7","8","9">>

IsUpper(c) == \E i \in 1..26 : UpperChars[i] = c
IsLower(c) == \E i \in 1..26 : LowerChars[i] = c
IsAlpha(c) == IsUpper(c) \/ IsLower(c)
IsDigit(c) == \E i \in 1..10 : DigitChars[i] = c
IsSpace(c) == c \in {" ", "\t", "\n"}

DigitVal(c) == (CHOOSE i \in 1..10 : DigitChars[i] = c) - 1

\* str.lower(), one character
LowerChar(c) ==
    IF IsUpper(c) THEN LowerChars[CHOOSE i \in 1..26 : UpperChars[i] = c] ELSE c

\* str.lower()
Lower(s) == [i \in 1..Len(s) |-> LowerChar(s[i])]

RECURSIVE LStrip(_)
LStrip(s) == IF s # <<>> /\ IsSpace(Head(s)) THEN LStrip(Tail(s)) ELSE s

RECURSIVE RStrip(_)
RStrip(s) ==
    IF s # <<>> /\ IsSpace(s[Len(s)]) THEN RStrip(SubSeq(s, 1, Len(s) - 1)) ELSE s

\* str.strip()
Strip(s) == RStrip(LStrip(s))

\* c in s, for a character c
HasChar(s, c) == \E i \in 1..Len(s) : s[i] = c

\* sub in s, for a two-character substring
HasPair(s, c1, c2) == \E i \in 1..(Len(s) - 1) : s[i] = c1 /\ s[i + 1] = c2

\* str.split(sep) for a one-character separator
RECURSIVE Split(_, _)
Split(s, sep) ==
    IF \E i \in 1..Len(s) : s[i] = sep
    THEN LET p == CHOOSE i \in 1..Len(s) :
                      s[i] = sep /\ \A j \in 1..(i - 1) : s[j] # sep
         IN  <<SubSeq(s, 1, p - 1)>> \o Split(SubSeq(s, p + 1, Len(s)), sep)
    ELSE <<s>>

\* the f-string rendering of a str value
RECURSIVE Join(_)
Join(s) == IF s = <<>> THEN "" ELSE Head(s) \o Join(Tail(s))

AllDigits(s) == \A i \in 1..Len(s) : IsDigit(s[i])

RECURSIVE DigitsVal(_)
DigitsVal(s) ==
    IF s = <<>> THEN 0
    ELSE 10 * DigitsVal(SubSeq(s, 1, Len(s) - 1)) + DigitVal(s[Len(s)])

\* s without its underscores
RECURSIVE DropUnderscores(_)
DropUnderscores(s) ==
    IF s = <<>> THEN <<>>
    ELSE IF Head(s) = "_" THEN DropUnderscores(Tail(s))
    ELSE <<Head(s)>> \o DropUnderscores(Tail(s))

\* int(s) of a str: surrounding whitespace, an optional sign, then digits with
\* single underscores between them.  [ok |-> FALSE] stands for ValueError.
ParseInt(s) ==
    LET t    == Strip(s)
        sign == IF t # <<>> /\ Head(t) \in {"+", "-"} THEN Head(t) ELSE ""
        body == IF sign = "" THEN t ELSE Tail(t)
        good == /\ body # <<>>
                /\ IsDigit(Head(body))
                /\ IsDigit(body[Len(body)])
                /\ \A i \in 1..Len(body) : IsDigit(body[i]) \/ body[i] = "_"
                /\ ~HasPair(body, "_", "_")
        mag  == DigitsVal(DropUnderscores(body))
    IN  IF good THEN [ok |-> TRUE, val |-> IF sign = "-" THEN 0 - mag ELSE mag]
        ELSE [ok |-> FALSE, val |-> 0]

-----------------------------------------------------------------------------
(* Dates: datetime.strptime(s, '%Y-%m-%d') and the comparisons with now     *)

IsLeap(y) == (y % 4 = 0 /\ y % 100 # 0) \/ y % 400 = 0

DaysInMonth(y, m) ==
    IF m = 2 THEN (IF IsLeap(y) THEN 29 ELSE 28)
    ELSE IF m \in {4, 6, 9, 11} THEN 30 ELSE 31

\* the day number of the civil date y-m-d (days since 1970-01-01)
DaysFromCivil(y, m, d) ==
    LET yy  == IF m <= 2 THEN y - 1 ELSE y
        era == yy \div 400
        yoe == yy - era * 400
        mp  == IF m > 2 THEN m - 3 ELSE m + 9
        doy == (153 * mp + 2) \div 5 + d - 1
        doe == yoe * 365 + yoe \div 4 - yoe \div 100 + doy
    IN  era * 146097 + doe - 719468

\* %m of strptime: 1[0-2]|0[1-9]|[1-9]
MonthField(s) ==
    \/ Len(s) = 2 /\ s[1] = "1" /\ s[2] \in {"0", "1", "2"}
    \/ Len(s) = 2 /\ s[1] = "0" /\ IsDigit(s[2]) /\ s[2] # "0"
    \/ Len(s) = 1 /\ IsDigit(s[1]) /\ s[1] # "0"

\* %d of strptime: 3[0-1]|[1-2]\d|0[1-9]|[1-9]| [1-9]
DayField(s) ==
    \/ Len(s) = 2 /\ s[1] = "3" /\ s[2] \in {"0", "1"}
    \/ Len(s) = 2 /\ s[1] \in {"1", "2"} /\ IsDigit(s[2])
    \/ Len(s) = 2 /\ s[1] \in {"0", " "} /\ IsDigit(s[2]) /\ s[2] # "0"
    \/ Len(s) = 1 /\ IsDigit(s[1]) /\ s[1] # "0"

\* datetime.strptime(s, '%Y-%m-%d'): [ok |-> FALSE] stands for ValueError,
\* else day is the day number of the date (its time of day is midnight).
strptime(s) ==
    LET parts == Split(s, "-")
        shape == /\ Len(parts) = 3
                 /\ Len(parts[1]) = 4 /\ AllDigits(parts[1])
                 /\ MonthField(parts[2])
                 /\ DayField(parts[3])
        y     == DigitsVal(parts[1])
        m     == DigitsVal(parts[2])
        d     == DigitsVal(Strip(parts[3]))
    IN  IF shape /\ y >= 1 /\ d <= DaysInMonth(y, m)
        THEN [ok |-> TRUE, day |-> DaysFromCivil(y, m, d)]
        ELSE [ok |-> FALSE, day |-> 0]

\* A datetime is [day, tod]: the day number and the time of day, 0 for
\* midnight exactly and 1 for any later instant of the day.
DateTime(day, tod) == [day |-> day, tod |-> tod]

Before_DaysOnly(a, b) == a.day < b.day

\* a < b on datetimes
Before(a, b) == a.day < b.day \/ (a.day = b.day /\ a.tod < b.tod)

\* dt + timedelta(days=n)
PlusDays(dt, n) == [day |-> dt.day + n, tod |-> dt.tod]

-----------------------------------------------------------------------------
(* ValidationResult and the tables of SportsDataValidator                   *)

\* the value of an omitted `field`
None == "None"

\* the encoding of None for an Optional[int] id
NoneId == -1

\* the truth value of an Optional[int]: None and 0 are falsy
Truthy(x) == x # NoneId /\ x # 0

ValidationResult(is_valid, message, field, severity) ==
    [is_valid |-> is_valid, message |-> message, field |-> field,
     severity |-> severity]

\* ValidationResult(is_valid, message, field): severity takes its default
Result3(is_valid, message, field) ==
    ValidationResult(is_valid, message, field, "error")

\* ValidationResult(is_valid, message): field and severity take their defaults
Result2(is_valid, message) == ValidationResult(is_valid, message, None, "error")

Soccer == <<"S","o","c","c","e","r">>
Basketball == <<"B","a","s","k","e","t","b","a","l","l">>
Formula1 == <<"F","o","r","m","u","l","a"," ","1">>
PremierLeague == <<"P","r","e","m","i","e","r"," ","L","e","a","g","u","e">>
LaLiga == <<"L","a"," ","L","i","g","a">>
SerieA == <<"S","e","r","i","e"," ","A">>
Bundesliga == <<"B","u","n","d","e","s","l","i","g","a">>
ChampionsLeague == <<"C","h","a","m","p","i","o","n","s"," ","L","e","a","g","u","e">>
EuropaLeague == <<"E","u","r","o","p","a"," ","L","e","a","g","u","e">>
NBA == <<"N","B","A">>
EuroLeague == <<"E","u","r","o","L","e","a","g","u","e">>
CollegeBasketball == <<"C","o","l","l","e","g","e"," ","B","a","s","k","e","t","b","a","l","l">>
WNBA == <<"W","N","B","A">>

\* the dict as its items, in source order
LEAGUE_SPORT_MAPPING ==
    << <<PremierLeague, Soccer>>, <<LaLiga, Soccer>>, <<SerieA, Soccer>>,
       <<Bundesliga, Soccer>>, <<ChampionsLeague, Soccer>>,
       <<EuropaLeague, Soccer>>, <<NBA, Basketball>>,
       <<EuroLeague, Basketball>>, <<CollegeBasketball, Basketball>>,
       <<WNBA, Basketball>> >>

\* LEAGUE_SPORT_MAPPING.get(league); <<>> stands for None (both are falsy,
\* and no mapped sport is empty)
MappingGet(league) ==
    IF \E i \in 1..Len(LEAGUE_SPORT_MAPPING) : LEAGUE_SPORT_MAPPING[i][1] = league
    THEN LEAGUE_SPORT_MAPPING[CHOOSE i \in 1..Len(LEAGUE_SPORT_MAPPING) :
                                  LEAGUE_SPORT_MAPPING[i][1] = league][2]
    ELSE <<>>

\* [A-Za-z\s\-\.\'&] of TEAM_NAME_PATTERNS["Soccer"] (the range of accented
\* letters is outside the characters of the model)
SoccerNameChar(c) == IsAlpha(c) \/ IsSpace(c) \/ c \in {"-", ".", "'", "&"}

\* [A-Za-z\s\-\.\d'&] of TEAM_NAME_PATTERNS["Basketball"] and LEAGUE_NAME_PATTERN
BasketballNameChar(c) == SoccerNameChar(c) \/ IsDigit(c)

\* sport in TEAM_NAME_PATTERNS
HasNamePattern(sport) == sport \in {Soccer, Basketball}

\* re.match(TEAM_NAME_PATTERNS[sport], name)
TEAM_NAME_PATTERNS(sport, name) ==
    /\ Len(name) >= 2 /\ Len(name) <= 50
    /\ \A i \in 1..Len(name) :
          IF sport = Soccer THEN SoccerNameChar(name[i])
          ELSE BasketballNameChar(name[i])

\* re.match(LEAGUE_NAME_PATTERN, name)
LEAGUE_NAME_PATTERN(name) ==
    /\ Len(name) >= 2 /\ Len(name) <= 100
    /\ \A i \in 1..Len(name) : BasketballNameChar(name[i])

\* sport in SCORE_PATTERNS
HasScorePattern(sport) == sport \in {Soccer, Basketball}

\* re.match(SCORE_PATTERNS[sport], score): ^\d{1,2}-\d{1,2}$ for Soccer,
\* ^\d{2,3}-\d{2,3}$ for Basketball
SCORE_PATTERNS(sport, score) ==
    LET lo == IF sport = Soccer THEN 1 ELSE 2
        hi == IF sport = Soccer THEN 2 ELSE 3
        parts == Split(score, "-")
    IN  /\ Len(parts) = 2
        /\ \A k \in 1..2 : /\ Len(parts[k]) >= lo /\ Len(parts[k]) <= hi
                           /\ AllDigits(parts[k])

-----------------------------------------------------------------------------
(* The field validators                                                     *)

validate_team_name(team_name, sport) ==
    IF team_name = <<>> \/ Strip(team_name) = <<>>
    THEN Result3(FALSE, "Team name cannot be empty", "team_name")
    ELSE LET name == Strip(team_name) IN
         IF Len(name) < 2
         THEN Result3(FALSE, "Team name must be at least 2 characters", "team_name")
         ELSE IF Len(name) > 50
         THEN Result3(FALSE, "Team name cannot exceed 50 characters", "team_name")
         ELSE IF HasNamePattern(sport) /\ ~TEAM_NAME_PATTERNS(sport, name)
         THEN Result3(FALSE,
                      "Team name contains invalid characters for " \o Join(sport),
                      "team_name")
         ELSE IF \/ \E c \in {"<", ">", "\"", "'", ";"} : HasChar(name, c)
                 \/ HasPair(name, "-", "-")
         THEN Result3(FALSE, "Team name contains invalid characters", "team_name")
         ELSE Result2(TRUE, "Team name is valid")

validate_league_name(league_name) ==
    IF league_name = <<>> \/ Strip(league_name) = <<>>
    THEN Result3(FALSE, "League name cannot be empty", "league")
    ELSE LET name == Strip(league_name) IN
         IF Len(name) < 2
         THEN Result3(FALSE, "League name must be at least 2 characters", "league")
         ELSE IF Len(name) > 100
         THEN Result3(FALSE, "League name cannot exceed 100 characters", "league")
         ELSE IF ~LEAGUE_NAME_PATTERN(name)
         THEN Result3(FALSE, "League name contains invalid characters", "league")
         ELSE Result2(TRUE, "League name is valid")

\* validate_date(date_str), with the value datetime.now() returns as `clock`
validate_date(date_str, clock) ==
    IF date_str = <<>> \/ Strip(date_str) = <<>>
    THEN Result3(FALSE, "Date cannot be empty", "date")
    ELSE LET parsed == strptime(Strip(date_str)) IN
         IF ~parsed.ok
         THEN Result3(FALSE, "Invalid date format. Use YYYY-MM-DD", "date")
         ELSE LET date_obj == DateTime(parsed.day, 0)
                  min_date == PlusDays(clock, 0 - 365 * 10)
                  max_date == PlusDays(clock, 365)
              IN  IF Before(date_obj, min_date)
                  THEN Result3(FALSE, "Date cannot be more than 10 years ago", "date")
                  ELSE IF Before(max_date, date_obj)
                  THEN Result3(FALSE,
                               "Date cannot be more than 1 year in the future", "date")
                  ELSE IF Before(clock, date_obj)
                  THEN ValidationResult(TRUE, "Future date detected", "date", "warning")
                  ELSE Result2(TRUE, "Date is valid")

\* the sport-specific part of validate_score, on the parsed scores
ScoreBands(score1, score2, sport) ==
    IF sport = Soccer /\ (score1 > 15 \/ score2 > 15)
    THEN ValidationResult(FALSE, "Soccer scores rarely exceed 15 goals",
                          "score", "warning")
    ELSE IF sport = Soccer /\ (score1 > 10 \/ score2 > 10)
    THEN ValidationResult(TRUE, "High scoring game detected", "score", "info")
    ELSE IF sport = Basketball /\ (score1 < 50 \/ score2 < 50)
    THEN Result3(FALSE, "Basketball scores are typically above 50", "score")
    ELSE IF sport = Basketball /\ (score1 > 200 \/ score2 > 200)
    THEN ValidationResult(FALSE, "Basketball scores rarely exceed 200 points",
                          "score", "warning")
    ELSE Result2(TRUE, "Score is valid")

validate_score(score_str, sport) ==
    IF score_str = <<>> \/ Strip(score_str) = <<>>
    THEN Result3(FALSE, "Score cannot be empty", "score")
    ELSE LET score == Strip(score_str) IN
         IF HasScorePattern(sport) /\ ~SCORE_PATTERNS(sport, score)
         THEN Result3(FALSE,
                      "Invalid score format for " \o Join(sport)
                          \o ". Use format: X-Y",
                      "score")
         ELSE LET parts == Split(score, "-") IN
              IF Len(parts) # 2
              THEN Result3(FALSE, "Score must be in format X-Y", "score")
              ELSE LET p1 == ParseInt(Strip(parts[1]))
                       p2 == ParseInt(Strip(parts[2]))
                   IN  IF ~p1.ok \/ ~p2.ok
                       THEN Result3(FALSE, "Invalid score format. Use numbers only",
                                    "score")
                       ELSE IF p1.val < 0 \/ p2.val < 0
                       THEN Result3(FALSE, "Scores cannot be negative", "score")
                       ELSE ScoreBands(p1.val, p2.val, sport)

validate_league_sport_compatibility_AsError(league, sport) ==
    LET expected_sport == MappingGet(league) IN
    IF expected_sport # <<>> /\ expected_sport # sport
    THEN Result3(FALSE,
                 "'" \o Join(league) \o "' is typically a "
                     \o Join(expected_sport) \o " league, not "
                     \o Join(sport),
                 "league")
    ELSE Result2(TRUE, "League-sport combination is valid")

validate_league_sport_compatibility(league, sport) ==
    LET expected_sport == MappingGet(league) IN
    IF expected_sport # <<>> /\ expected_sport # sport
    THEN ValidationResult(FALSE,
                          "'" \o Join(league) \o "' is typically a "
                              \o Join(expected_sport) \o " league, not "
                              \o Join(sport),
                          "league", "warning")
    ELSE Result2(TRUE, "League-sport combination is valid")

-----------------------------------------------------------------------------
(* Duplicate detection                                                      *)

DuplicateResult ==
    Result3(FALSE,
            "A game between these teams in this league already exists on this date",
            "general")

\* GameMatches without the check of the reverse team order
GameMatches_ForwardOnly(game, team1, team2, league, date, exclude_id) ==
    /\ ~(Truthy(exclude_id) /\ game.id = exclude_id)
    /\ game.team1 = team1 /\ game.team2 = team2
    /\ game.league = league /\ game.date = date

\* one iteration of the loop of validate_unique_game: whether `game` makes the
\* loop return the duplicate result
GameMatches(game, team1, team2, league, date, exclude_id) ==
    /\ ~(Truthy(exclude_id) /\ game.id = exclude_id)
    /\ \/ /\ game.team1 = team1 /\ game.team2 = team2
          /\ game.league = league /\ game.date = date
       \/ /\ game.team1 = team2 /\ game.team2 = team1
          /\ game.league = league /\ game.date = date

validate_unique_game(team1, team2, league, date, existing_games, exclude_id) ==
    IF \E i \in 1..Len(existing_games) :
           GameMatches(existing_games[i], team1, team2, league, date, exclude_id)
    THEN DuplicateResult
    ELSE Result2(TRUE, "Game is unique")

-----------------------------------------------------------------------------
(* The orchestrator                                                         *)

\* an Optional value: Absent stands for None (or for a missing dict entry)
Some(x) == <<x>>

Absent == <<>>

Return(v) == [exc |-> "", ret |-> v]

Raise(e) == [exc |-> e, ret |-> <<>>]

\* required_fields of validate_game_data
required_fields == <<"sport", "league", "team1", "team2", "score", "date">>

\* FieldMissing with the emptiness test left out: only an absent key counts
FieldMissing_AbsentOnly(game_data, f) == f \notin DOMAIN game_data

\* field not in game_data or not game_data[field]
FieldMissing(game_data, f) == f \notin DOMAIN game_data \/ game_data[f] = <<>>

\* the loop over required_fields: one result per missing field, in field order
RequiredResults(game_data) ==
    LET Missing(f) == FieldMissing(game_data, f)
        missing    == SelectSeq(required_fields, Missing)
    IN  [i \in 1..Len(missing) |->
            Result3(FALSE, missing[i] \o " is required", missing[i])]

\* SameTeam comparing the stripped names without lower()
SameTeam_CaseSensitive(team1, team2) == Strip(team1) = Strip(team2)

\* the same-team check of validate_game_data
SameTeam(team1, team2) == Lower(Strip(team1)) = Lower(Strip(team2))

SameTeamResult == Result3(FALSE, "Team 1 and Team 2 cannot be the same", "team2")

\* FieldResults with the five field validators first, then the same-team
\* check, then the compatibility check
FieldResults_FieldsFirst(game_data, clock) ==
    <<validate_team_name(game_data["team1"], game_data["sport"]),
      validate_team_name(game_data["team2"], game_data["sport"]),
      validate_league_name(game_data["league"]),
      validate_score(game_data["score"], game_data["sport"]),
      validate_date(game_data["date"], clock)>>
    \o (IF SameTeam(game_data["team1"], game_data["team2"])
        THEN <<SameTeamResult>> ELSE <<>>)
    \o <<validate_league_sport_compatibility(game_data["league"],
                                             game_data["sport"])>>

\* the results validate_game_data has appended when it reaches the uniqueness
\* check
FieldResults(game_data, clock) ==
    LET sport  == game_data["sport"]
        league == game_data["league"]
        team1  == game_data["team1"]
        team2  == game_data["team2"]
        score  == game_data["score"]
        date   == game_data["date"]
    IN  <<validate_team_name(team1, sport), validate_team_name(team2, sport)>>
        \o (IF SameTeam(team1, team2) THEN <<SameTeamResult>> ELSE <<>>)
        \o <<validate_league_name(league),
             validate_league_sport_compatibility(league, sport),
             validate_score(score, sport),
             validate_date(date, clock)>>

\* The uniqueness check of validate_game_data.  existing_games is <<>> for
\* None and <<list>> for a list.  The call passes `exclude_id`, a name that is
\* neither a parameter or local of validate_game_data (its parameter is
\* exclude_game_id) nor a global of the module: evaluating the arguments
\* raises NameError before validate_unique_game is entered.
UniquenessCheck(results, game_data, existing_games, exclude_game_id) ==
    IF existing_games # <<>>
    THEN Raise("NameError")
    ELSE Return(results)

validate_game_data(game_data, existing_games, exclude_game_id, clock) ==
    IF \E i \in 1..Len(required_fields) : FieldMissing(game_data, required_fields[i])
    THEN Return(RequiredResults(game_data))
    ELSE UniquenessCheck(FieldResults(game_data, clock), game_data,
                         existing_games, exclude_game_id)

-----------------------------------------------------------------------------
(* validate_batch_games                                                     *)

\* game.get(field): Absent stands for None
Get(game, field) == IF field \in DOMAIN game THEN Some(game[field]) ELSE Absent

\* the field name of a failing error of the i-th game of a batch (i counts
\* from 1, as the code's i+1)
BatchFieldName(i, result) ==
    IF result.field # "general"
    THEN "game_" \o ToString(i) \o "." \o result.field
    ELSE "game_" \o ToString(i)

\* what the first loop appends for one result of the i-th game
BatchResult(i, result) ==
    IF ~result.is_valid /\ result.severity = "error"
    THEN ValidationResult(result.is_valid, result.message,
                          BatchFieldName(i, result), result.severity)
    ELSE result

\* game_results of the i-th game: validate_game_data(game_data)
GameResults(games_data, i, clock) ==
    validate_game_data(games_data[i], Absent, NoneId, clock).ret

\* the results of the first loop, for the games i..Len(games_data)
RECURSIVE IndividualResults(_, _, _)
IndividualResults(games_data, i, clock) ==
    IF i > Len(games_data) THEN <<>>
    ELSE LET game_results == GameResults(games_data, i, clock) IN
         [k \in 1..Len(game_results) |-> BatchResult(i, game_results[k])]
             \o IndividualResults(games_data, i + 1, clock)

\* error_count of the i-th game
ErrorCount(games_data, i, clock) ==
    LET game_results == GameResults(games_data, i, clock) IN
    Cardinality({k \in 1..Len(game_results) :
                    ~game_results[k].is_valid
                    /\ game_results[k].severity = "error"})

\* the test of the second loop on games i < j
BatchDuplicate(game1, game2) ==
    /\ Get(game1, "team1") = Get(game2, "team1")
    /\ Get(game1, "team2") = Get(game2, "team2")
    /\ Get(game1, "league") = Get(game2, "league")
    /\ Get(game1, "date") = Get(game2, "date")

\* the finding the second loop appends for games i < j
BatchDuplicateResult(i, j) ==
    Result3(FALSE,
            "Duplicate games found between games " \o ToString(i)
                \o " and " \o ToString(j),
            "game_" \o ToString(i))

\* the results of the second loop, for the pairs from (i, j) on
RECURSIVE PairResults(_, _, _)
PairResults(games_data, i, j) ==
    IF i > Len(games_data) THEN <<>>
    ELSE IF j > Len(games_data) THEN PairResults(games_data, i + 1, i + 2)
    ELSE (IF BatchDuplicate(games_data[i], games_data[j])
          THEN <<BatchDuplicateResult(i, j)>> ELSE <<>>)
             \o PairResults(games_data, i, j + 1)

\* (results, valid_count)
validate_batch_games(games_data, clock) ==
    LET individual == IndividualResults(games_data, 1, clock)
        pairs == PairResults(games_data, 1, 2)
        counted == Cardinality({i \in 1..Len(games_data) :
                                   ErrorCount(games_data, i, clock) = 0})
    IN  <<individual \o pairs, counted - Len(pairs)>>

-----------------------------------------------------------------------------
(* get_validation_summary                                                   *)

\* the summary dict before the loop
EmptySummary == [total |-> 0, errors |-> 0, warnings |-> 0, info |-> 0, valid |-> 0]

SummaryStep_SeverityAlways(summary, result) ==
    [summary EXCEPT
        !.valid = IF result.is_valid THEN @ + 1 ELSE @,
        !.errors = IF result.severity = "error" THEN @ + 1 ELSE @,
        !.warnings = IF result.severity = "warning" THEN @ + 1 ELSE @,
        !.info = IF result.severity = "info" THEN @ + 1 ELSE @]

\* one turn of the loop
SummaryStep(summary, result) ==
    IF result.is_valid THEN [summary EXCEPT !.valid = @ + 1]
    ELSE IF result.severity = "error" THEN [summary EXCEPT !.errors = @ + 1]
    ELSE IF result.severity = "warning" THEN [summary EXCEPT !.warnings = @ + 1]
    ELSE IF result.severity = "info" THEN [summary EXCEPT !.info = @ + 1]
    ELSE summary

\* the loop over results[i..]
RECURSIVE SummaryLoop(_, _, _)
SummaryLoop(summary, results, i) ==
    IF i > Len(results) THEN summary
    ELSE SummaryLoop(SummaryStep(summary, results[i]), results, i + 1)

get_validation_summary(results) ==
    SummaryLoop([EmptySummary EXCEPT !.total = Len(results)], results, 1)

-----------------------------------------------------------------------------
(* Credential rules (src/utils/auth.py)                                     *)

\* the characters of "!@#$%^&*()_+-=[]{}|;:,.<>?"
SpecialChars ==
    {"!", "@", "#", "$", "%", "^", "&", "*", "(", ")", "_", "+", "-", "=",
     "[", "]", "{", "}", "|", ";", ":", ",", ".", "<", ">", "?"}

\* <<message>> if the rule is unmet, else <<>>
Unless(met, message) == IF met THEN <<>> ELSE <<message>>

PasswordErrors_FirstOnly(password) ==
    IF Len(password) < 8
    THEN <<"Password must be at least 8 characters long">>
    ELSE IF ~\E i \in 1..Len(password) : IsUpper(password[i])
    THEN <<"Password must contain at least one uppercase letter">>
    ELSE IF ~\E i \in 1..Len(password) : IsLower(password[i])
    THEN <<"Password must contain at least one lowercase letter">>
    ELSE IF ~\E i \in 1..Len(password) : IsDigit(password[i])
    THEN <<"Password must contain at least one number">>
    ELSE IF ~\E i \in 1..Len(password) : password[i] \in SpecialChars
    THEN <<"Password must contain at least one special character">>
    ELSE <<>>

\* the errors list of validate_password_strength
PasswordErrors(password) ==
    Unless(Len(password) >= 8,
           "Password must be at least 8 characters long")
    \o Unless(\E i \in 1..Len(password) : IsUpper(password[i]),
              "Password must contain at least one uppercase letter")
    \o Unless(\E i \in 1..Len(password) : IsLower(password[i]),
              "Password must contain at least one lowercase letter")
    \o Unless(\E i \in 1..Len(password) : IsDigit(password[i]),
              "Password must contain at least one number")
    \o Unless(\E i \in 1..Len(password) : password[i] \in SpecialChars,
              "Password must contain at least one special character")

CanProceed_StrongOnly(allow_weak, errors) == Len(errors) = 0

\* can_proceed = allow_weak or len(errors) == 0
CanProceed(allow_weak, errors) == allow_weak \/ Len(errors) = 0

\* (errors, can_proceed)
validate_password_strength(password, allow_weak) ==
    LET errors == PasswordErrors(password) IN
    <<errors, CanProceed(allow_weak, errors)>>

\* s.replace(c, '')
Remove(s, c) == SelectSeq(s, LAMBDA x : x # c)

\* s.isalnum(): at least one character, all of them letters or digits
IsAlnum(s) == Len(s) > 0 /\ \A i \in 1..Len(s) : IsAlpha(s[i]) \/ IsDigit(s[i])

\* username.startswith('_') or .startswith('-') or .endswith('_') or .endswith('-')
EdgeMark(username) ==
    /\ Len(username) > 0
    /\ username[1] \in {"_", "-"} \/ username[Len(username)] \in {"_", "-"}

validate_username_NoEdgeRule(username) ==
    Unless(Len(username) >= 3, "Username must be at least 3 characters long")
    \o Unless(Len(username) <= 50,
              "Username must be no more than 50 characters long")
    \o Unless(IsAlnum(Remove(Remove(username, "_"), "-")),
              "Username can only contain letters, numbers, underscores, and hyphens")

\* the errors list of validate_username
validate_username(username) ==
    Unless(Len(username) >= 3, "Username must be at least 3 characters long")
    \o Unless(Len(username) <= 50,
              "Username must be no more than 50 characters long")
    \o Unless(IsAlnum(Remove(Remove(username, "_"), "-")),
              "Username can only contain letters, numbers, underscores, and hyphens")
    \o Unless(~EdgeMark(username),
              "Username cannot start or end with underscore or hyphen")

-----------------------------------------------------------------------------
(* The inputs of the calls                                                  *)

\* the longest list of existing games a caller supplies to validate_unique_game
MaxExisting == 2

\* the ids of existing games are 0..MaxId
MaxId == 2

TeamAb == <<"A","b">>
TeamAbVariant == <<" ","a","B">>
TeamCd == <<"C","d">>
TeamBad == <<"A","<">>
TeamDigit == <<"A","1">>
TeamDashes == <<"A","-","-","b">>
TeamShort == <<"x">>
TeamBlank == <<" ">>
TeamLong == [i \in 1..51 |-> "a"]
TeamBrace == <<"A","{","b">>
TeamSemi == <<"A",";","b">>

MyLeague == <<"M","y"," ","C","u","p">>
LeagueShort == <<"X">>
LeagueBad == <<"A","<","b">>
LeagueLong == [i \in 1..101 |-> "a"]

\* the clock of the model: 2026-11-04, at midnight exactly or later in the day
Today == DaysFromCivil(2026, 11, 4)

Clocks == {DateTime(Today, tod) : tod \in {0, 1}}

DateToday == <<"2","0","2","6","-","1","1","-","0","4">>
DateFuture == <<"2","0","2","7","-","0","1","-","1","5">>
DateMaxDay == <<"2","0","2","7","-","1","1","-","0","4">>
DateTooLate == <<"2","0","2","7","-","1","1","-","0","5">>
DateMinDay == <<"2","0","1","6","-","1","1","-","0","6">>
DateTooOld == <<"2","0","1","6","-","1","1","-","0","5">>
DateShort == <<"2","0","2","6","-","1","-","5">>
DateNoDay == <<"2","0","2","6","-","0","2","-","3","0">>
DateBad == <<"0","4","/","1","1","/","2","0","2","6">>
DatePadded == <<" ","2","0","2","6","-","1","1","-","0","4"," ">>

Score21 == <<"2","-","1">>
Score110 == <<"1","1","-","0">>
Score160 == <<"1","6","-","0">>
Score10098 == <<"1","0","0","-","9","8">>
Score4560 == <<"4","5","-","6","0">>
Score201 == <<"2","0","1","-","9","9">>
ScoreWords == <<"a","b","c","-","3">>
ScoreMinus == <<"-","1","-","3">>
ScorePlus == <<"+","2","-","1">>
ScoreSpaced == <<"2"," ","-"," ","1">>
ScoreThree == <<"1","-","2","-","3">>
ScoreNoDash == <<"2","1">>

Sports == {Soccer, Basketball, Formula1}

TeamNames ==
    {<<>>, TeamBlank, TeamShort, TeamAb, TeamAbVariant, TeamCd, TeamBad,
     TeamDigit, TeamDashes, TeamLong, TeamBrace, TeamSemi}

LeagueNames ==
    {<<>>, LeagueShort, PremierLeague, NBA, WNBA, MyLeague, LeagueBad, LeagueLong}

Dates ==
    {<<>>, DateToday, DateFuture, DateMaxDay, DateTooLate, DateMinDay,
     DateTooOld, DateShort, DateNoDay, DateBad, DatePadded}

Scores ==
    {<<>>, Score21, Score110, Score160, Score10098, Score4560, Score201,
     ScoreWords, ScoreMinus, ScorePlus, ScoreSpaced, ScoreThree, ScoreNoDash}

\* the six entries of a game_data dict, each Absent or Some(value)
SportOpts == {Absent, Some(Soccer), Some(Basketball), Some(Formula1)}
LeagueOpts == {Some(<<>>), Some(PremierLeague), Some(NBA), Some(MyLeague)}
Team1Opts == {Absent, Some(TeamAb), Some(TeamCd), Some(TeamBad)}
Team2Opts == {Some(<<>>), Some(TeamAb), Some(TeamAbVariant), Some(TeamCd), Some(TeamBad)}
ScoreOpts == {Some(<<>>), Some(Score21), Some(ScoreWords), Some(Score10098)}
DateOpts == {Absent, Some(DateToday), Some(DateFuture), Some(DateTooOld)}

\* the dict whose entries are opts, in the order of required_fields
GameData(opts) ==
    LET present == {i \in 1..6 : opts[i] # Absent}
        Index(f) == CHOOSE i \in 1..6 : required_fields[i] = f
    IN  [f \in {required_fields[i] : i \in present} |-> opts[Index(f)][1]]

\* a row of the games table, as fetch_games returns it to the validator
Game(id, team1, team2, league, date) ==
    [id |-> id, team1 |-> team1, team2 |-> team2, league |-> league, date |-> date]

\* what the rows of an existing-games list hold beside their id
GameShapes ==
    { <<TeamAb, TeamCd, PremierLeague, DateToday>>,
      <<TeamCd, TeamAb, PremierLeague, DateToday>>,
      <<TeamAb, TeamCd, NBA, DateToday>>,
      <<TeamAb, TeamCd, PremierLeague, DateFuture>> }

GamesWithIds(ids) ==
    {Game(id, g[1], g[2], g[3], g[4]) : id \in ids, g \in GameShapes}

\* the lists of at most n existing games, each with an id of its own in 0..MaxId
RECURSIVE ExistingLists(_)
ExistingLists(n) ==
    IF n = 0 THEN {<<>>}
    ELSE LET shorter == ExistingLists(n - 1) IN
         shorter \cup
         {Append(l, g) : l \in {s \in shorter : Len(s) = n - 1},
                         g \in GamesWithIds(0..MaxId)}

DistinctIds(l) == \A i, j \in 1..Len(l) : i # j => l[i].id # l[j].id

ExistingGames == {l \in ExistingLists(MaxExisting) : DistinctIds(l)}

\* exclude_id: None or an id
ExcludeIds == {NoneId} \cup (0..MaxId)

-----------------------------------------------------------------------------
(* Calls of the validators, each on inputs a caller may supply.  The clock  *)
(* is read once; a call is made from the idle state and leaves its          *)
(* arguments and its outcome in args and out.                               *)

CallValidateTeamName ==
    /\ pc = "idle"
    /\ \E name \in TeamNames, sp \in Sports :
        /\ args' = [team_name |-> name, sport |-> sp]
        /\ out' = Return(validate_team_name(name, sp))
    /\ op' = "validate_team_name"
    /\ pc' = "done"
    /\ UNCHANGED <<now, formVars, authVars>>

CallValidateLeagueName ==
    /\ pc = "idle"
    /\ \E name \in LeagueNames :
        /\ args' = [league_name |-> name]
        /\ out' = Return(validate_league_name(name))
    /\ op' = "validate_league_name"
    /\ pc' = "done"
    /\ UNCHANGED <<now, formVars, authVars>>

CallValidateDate ==
    /\ pc = "idle"
    /\ \E d \in Dates :
        /\ args' = [date_str |-> d]
        /\ out' = Return(validate_date(d, now))
    /\ op' = "validate_date"
    /\ pc' = "done"
    /\ UNCHANGED <<now, formVars, authVars>>

CallValidateScore ==
    /\ pc = "idle"
    /\ \E sc \in Scores, sp \in Sports :
        /\ args' = [score_str |-> sc, sport |-> sp]
        /\ out' = Return(validate_score(sc, sp))
    /\ op' = "validate_score"
    /\ pc' = "done"
    /\ UNCHANGED <<now, formVars, authVars>>

CallValidateCompatibility ==
    /\ pc = "idle"
    /\ \E lg \in LeagueNames, sp \in Sports :
        /\ args' = [league |-> lg, sport |-> sp]
        /\ out' = Return(validate_league_sport_compatibility(lg, sp))
    /\ op' = "validate_league_sport_compatibility"
    /\ pc' = "done"
    /\ UNCHANGED <<now, formVars, authVars>>

CallValidateUniqueGame ==
    /\ pc = "idle"
    /\ \E t1 \in {TeamAb, TeamCd}, t2 \in {TeamAb, TeamCd},
          lg \in {PremierLeague, NBA}, d \in {DateToday, DateFuture},
          existing \in ExistingGames, excl \in ExcludeIds :
        /\ args' = [team1 |-> t1, team2 |-> t2, league |-> lg, date |-> d,
                    existing_games |-> existing, exclude_id |-> excl]
        /\ out' = Return(validate_unique_game(t1, t2, lg, d, existing, excl))
    /\ op' = "validate_unique_game"
    /\ pc' = "done"
    /\ UNCHANGED <<now, formVars, authVars>>

\* the existing_games arguments of validate_game_data: None, or a list of at
\* most one game
ExistingArgs ==
    {Absent} \cup
    {Some(l) : l \in {e \in ExistingGames :
                         Len(e) <= 1 /\ \A i \in 1..Len(e) : e[i].id = 1}}

CallValidateGameData ==
    /\ pc = "idle"
    /\ \E sp \in SportOpts, lg \in LeagueOpts, t1 \in Team1Opts,
          t2 \in Team2Opts, sc \in ScoreOpts, d \in DateOpts,
          existing \in ExistingArgs, excl \in {NoneId, 1} :
        LET gd == GameData(<<sp, lg, t1, t2, sc, d>>) IN
        /\ args' = [game_data |-> gd, existing_games |-> existing,
                    exclude_game_id |-> excl]
        /\ out' = validate_game_data(gd, existing, excl, now)
    /\ op' = "validate_game_data"
    /\ pc' = "done"
    /\ UNCHANGED <<now, formVars, authVars>>

\* the longest batch handed to validate_batch_games
MaxBatch == 2

\* the candidates of a batch: a clean record, the same fixture with the teams
\* swapped, with another score, with a malformed score, on another date, and
\* without its date
BatchGames ==
    {GameData(<<Some(Soccer), Some(PremierLeague), Some(t[1]), Some(t[2]),
                Some(t[3]), t[4]>>) :
        t \in { <<TeamAb, TeamCd, Score21, Some(DateToday)>>,
                <<TeamCd, TeamAb, Score21, Some(DateToday)>>,
                <<TeamAb, TeamCd, Score110, Some(DateToday)>>,
                <<TeamAb, TeamCd, ScoreWords, Some(DateToday)>>,
                <<TeamAb, TeamCd, Score21, Some(DateFuture)>>,
                <<TeamAb, TeamCd, Score21, Absent>> }}

\* the batches of at most n candidates
RECURSIVE Batches(_)
Batches(n) ==
    IF n = 0 THEN {<<>>}
    ELSE LET shorter == Batches(n - 1) IN
         shorter \cup
         {Append(l, g) : l \in {s \in shorter : Len(s) = n - 1}, g \in BatchGames}

CallValidateBatchGames ==
    /\ pc = "idle"
    /\ \E batch \in Batches(MaxBatch) :
        /\ args' = [games_data |-> batch]
        /\ out' = Return(validate_batch_games(batch, now))
    /\ op' = "validate_batch_games"
    /\ pc' = "done"
    /\ UNCHANGED <<now, formVars, authVars>>

\* the length passwords are padded to
MaxPassword == 9

\* the characters passwords start with: every mix of the four character
\* classes, with symbols inside and outside the punctuation set
PasswordCores ==
    {<<>>, <<"A">>, <<"a">>, <<"1">>, <<"!">>, <<"A","a">>, <<"A","1">>,
     <<"a","1">>, <<"a","?">>, <<"A","a","1">>, <<"A","a","_">>,
     <<"A","1","]">>, <<"a","1","-">>, <<"A","a","1","!">>,
     <<"A","a","1","/">>, <<"A","a","1"," ">>, <<"A","a","1","'">>}

\* core, filled with "~" (a character of no class) up to n characters
Pad(core, n) ==
    IF Len(core) >= n THEN core
    ELSE core \o [i \in 1..(n - Len(core)) |-> "~"]

PasswordAbc == <<"a","b","c","1","2","3","4","5">>

Passwords ==
    {PasswordAbc} \cup {Pad(core, n) : core \in PasswordCores, n \in 0..MaxPassword}

CallValidatePasswordStrength ==
    /\ pc = "idle"
    /\ \E pw \in Passwords, weak \in BOOLEAN :
        /\ args' = [password |-> pw, allow_weak |-> weak]
        /\ out' = Return(validate_password_strength(pw, weak))
    /\ op' = "validate_password_strength"
    /\ pc' = "done"
    /\ UNCHANGED <<now, formVars, authVars>>

UserMixed == <<"a","_","B","-","1">>

Usernames ==
    {<<>>, <<"a","b">>, <<"a","b","c">>, <<"a","1","b">>, UserMixed,
     <<"_","a","b">>, <<"a","b","_">>, <<"-","a","b">>, <<"a","b","-">>,
     <<"_","_","_">>, <<"a","-","-","b">>, <<"a"," ","b">>, <<"a",".","b">>,
     <<"a","b","!">>, <<"a","@","b","c">>, <<"_","a">>,
     [i \in 1..50 |-> "a"], [i \in 1..51 |-> "a"],
     [i \in 1..51 |-> IF i = 51 THEN "_" ELSE "a"]}

CallValidateUsername ==
    /\ pc = "idle"
    /\ \E name \in Usernames :
        /\ args' = [username |-> name]
        /\ out' = Return(validate_username(name))
    /\ op' = "validate_username"
    /\ pc' = "done"
    /\ UNCHANGED <<now, formVars, authVars>>

\* the longest list handed to get_validation_summary
MaxResults == 3

\* results of every validity and severity, one with a severity of its own
SummaryResults ==
    {ValidationResult(v, "m", "score", s) :
        v \in BOOLEAN, s \in {"error", "warning", "info", "critical"}}

RECURSIVE ResultLists(_)
ResultLists(n) ==
    IF n = 0 THEN {<<>>}
    ELSE LET shorter == ResultLists(n - 1) IN
         shorter \cup
         {Append(l, r) : l \in {s \in shorter : Len(s) = n - 1},
                         r \in SummaryResults}

CallGetValidationSummary ==
    /\ pc = "idle"
    /\ \E results \in ResultLists(MaxResults) :
        /\ args' = [results |-> results]
        /\ out' = Return(get_validation_summary(results))
    /\ op' = "get_validation_summary"
    /\ pc' = "done"
    /\ UNCHANGED <<now, formVars, authVars>>

-----------------------------------------------------------------------------
(* GameForm (src/ui/game_form.py) and the data manager behind it            *)

\* the longest games table of the model
MaxGames == 2

\* the StringVars after setup_form: the sport combobox is set to "Soccer"
EmptyForm ==
    [sport |-> Soccer, league |-> <<>>, team1 |-> <<>>, team2 |-> <<>>,
     score |-> <<>>, date |-> <<>>]

\* what the user may leave in each field
FormValues(f) ==
    CASE f = "sport"  -> {Soccer, Basketball}
      [] f = "league" -> {<<>>, PremierLeague, NBA}
      [] f = "team1"  -> {<<>>, TeamAb}
      [] f = "team2"  -> {<<>>, TeamAbVariant, TeamCd}
      [] f = "score"  -> {<<>>, Score21}
      [] f = "date"   -> {<<>>, DateToday}

\* no run of the handler yet
NoSubmit ==
    [ran |-> FALSE, game_data |-> <<>>, exc |-> "", results |-> <<>>,
     errors |-> <<>>, warnings |-> <<>>, asked |-> FALSE, called |-> FALSE]

\* the messages of the failing results of one severity, in list order
RECURSIVE Messages(_, _)
Messages(results, severity) ==
    IF results = <<>> THEN <<>>
    ELSE (IF ~Head(results).is_valid /\ Head(results).severity = severity
          THEN <<Head(results).message>> ELSE <<>>)
         \o Messages(Tail(results), severity)

\* the game_data dict validate_entire_form builds from the StringVars
FormGameData(f) ==
    [sport |-> f.sport, league |-> Strip(f.league), team1 |-> Strip(f.team1),
     team2 |-> Strip(f.team2), score |-> Strip(f.score), date |-> Strip(f.date)]

\* validate_entire_form: the outcome of validate_game_data(game_data,
\* existing_games) on the fetched rows, exclude_game_id left to its default
validate_entire_form(f, rows, clock) ==
    validate_game_data(FormGameData(f), Some(rows), NoneId, clock)

\* AddGameRun without the return on a non-empty errors list
AddGameRun_ErrorsIgnored(f, v, errors, warnings, answer) ==
    [ran      |-> TRUE,
     game_data |-> FormGameData(f),
     exc      |-> v.exc,
     results  |-> v.ret,
     errors   |-> errors,
     warnings |-> warnings,
     asked    |-> v.exc = "" /\ warnings # <<>>,
     called   |-> v.exc = "" /\ ~(warnings # <<>> /\ ~answer)]

\* The run of add_game once validate_entire_form has ended with outcome v:
\* `called` tells whether data_manager.add_game(game_obj) is reached, and
\* `answer` is what the user answers if the warnings dialog is shown.
AddGameRun(f, v, errors, warnings, answer) ==
    [ran      |-> TRUE,
     game_data |-> FormGameData(f),
     exc      |-> v.exc,
     results  |-> v.ret,
     errors   |-> errors,
     warnings |-> warnings,
     asked    |-> v.exc = "" /\ warnings # <<>>,
     called   |-> /\ v.exc = ""
                  /\ ~(warnings # <<>> /\ ~answer)
                  /\ ~(errors # <<>>)]

\* the errors and warnings lists validate_entire_form returns
AddGameLists(f, v, answer) ==
    AddGameRun(f, v, Messages(v.ret, "error"), Messages(v.ret, "warning"), answer)

\* add_game of GameForm up to its call of data_manager.add_game
add_game(f, rows, clock, answer) ==
    AddGameLists(f, validate_entire_form(f, rows, clock), answer)

\* the id AUTO_INCREMENT gives the next row
NextId(rows) ==
    IF rows = <<>> THEN 1
    ELSE 1 + (CHOOSE m \in {rows[i].id : i \in 1..Len(rows)} :
                  \A i \in 1..Len(rows) : rows[i].id <= m)

\* clear_form: the sport and league selections stay
clear_form(f) ==
    [f EXCEPT !.team1 = <<>>, !.team2 = <<>>, !.score = <<>>, !.date = <<>>]

\* the user changes one field of the form
EditField ==
    /\ \E f \in DOMAIN form : \E v \in FormValues(f) :
          form' = [form EXCEPT ![f] = v]
    /\ UNCHANGED <<callVars, now, games, submit, authVars>>

\* the "Add Game" button or Control-s: the whole handler.  When it reaches
\* data_manager.add_game, the insert succeeds (db_ok) or fails with a
\* database error; on success the form is cleared.
AddGame ==
    /\ \E answer \in BOOLEAN : submit' = add_game(form, games, now, answer)
    /\ \E db_ok \in BOOLEAN :
          IF submit'.called /\ db_ok /\ Len(games) < MaxGames
          THEN /\ games' = Append(games,
                                  Game(NextId(games), submit'.game_data.team1,
                                       submit'.game_data.team2,
                                       submit'.game_data.league,
                                       submit'.game_data.date))
               /\ form' = clear_form(form)
          ELSE UNCHANGED <<games, form>>
    /\ UNCHANGED <<callVars, now, authVars>>

\* Control-r
ClearForm ==
    /\ form' = clear_form(form)
    /\ UNCHANGED <<callVars, now, games, submit, authVars>>

-----------------------------------------------------------------------------
(* The admin store (src/database/mysql_manager.py) and the password hash    *)
(* (src/utils/auth.py).  A bcrypt hash is <<"$2b$", salt, digest>>: the     *)
(* digest stands for the one-way image of the salted password.              *)

\* bcrypt.hashpw(password, salt)
hashpw(password, salt) == <<"$2b$", salt, <<salt, password>>>>

\* hash_password once bcrypt.gensalt() has drawn salt
hash_password(password, salt) == hashpw(password, salt)

\* the value is a bcrypt hash (bcrypt.checkpw raises ValueError on any other)
IsHash(hashed_password) == Len(hashed_password) = 3 /\ hashed_password[1] = "$2b$"

\* verify_password: bcrypt.checkpw, False on any exception
verify_password(password, hashed_password) ==
    IF ~IsHash(hashed_password) THEN FALSE
    ELSE hashpw(password, hashed_password[2]) = hashed_password

\* a = b in a column of collation utf8mb4_unicode_ci: letter case and
\* trailing spaces are ignored
SqlEq(a, b) == Lower(RStrip(a)) = Lower(RStrip(b))

\* a row of admin_users; last_login counts the logins (0 for NULL)
AdminRow(id, username, email, password_hash, full_name, is_active, last_login) ==
    [id |-> id, username |-> username, email |-> email,
     password_hash |-> password_hash, full_name |-> full_name,
     is_active |-> is_active, last_login |-> last_login]

\* the id AUTO_INCREMENT gives the next admin row
NextAdminId(rows) ==
    IF rows = <<>> THEN 1
    ELSE 1 + (CHOOSE m \in {rows[i].id : i \in 1..Len(rows)} :
                  \A i \in 1..Len(rows) : rows[i].id <= m)

AdminExists_UsernameOnly(rows, username, email) ==
    \E i \in 1..Len(rows) : SqlEq(rows[i].username, username)

\* SELECT id FROM admin_users WHERE username = %s OR email = %s finds a row
AdminExists(rows, username, email) ==
    \E i \in 1..Len(rows) :
        SqlEq(rows[i].username, username) \/ SqlEq(rows[i].email, email)

StoredPassword_Plain(password, salt) == password

\* the password_hash register_admin inserts
StoredPassword(password, salt) == hash_password(password, salt)

\* register_admin: [ret, rows], the value returned and the table afterwards;
\* db_ok is false when a statement raises mysql.connector.Error
register_admin(rows, username, email, password, full_name, salt, db_ok) ==
    IF ~db_ok THEN [ret |-> FALSE, rows |-> rows]
    ELSE IF AdminExists(rows, username, email) THEN [ret |-> FALSE, rows |-> rows]
    ELSE [ret |-> TRUE,
          rows |-> Append(rows,
                          AdminRow(NextAdminId(rows), username, email,
                                   StoredPassword(password, salt), full_name,
                                   TRUE, 0))]

\* the rows SELECT ... WHERE username = %s AND is_active = TRUE finds
ActiveMatch_AnyStatus(rows, username) ==
    {i \in 1..Len(rows) : SqlEq(rows[i].username, username)}

ActiveMatch(rows, username) ==
    {i \in 1..Len(rows) : SqlEq(rows[i].username, username) /\ rows[i].is_active}

\* update_admin_last_login: the table afterwards; the update is lost when
\* its statement raises (update_ok false)
update_admin_last_login(rows, user_id, update_ok) ==
    IF ~update_ok THEN rows
    ELSE [i \in 1..Len(rows) |->
             IF rows[i].id = user_id
             THEN [rows[i] EXCEPT !.last_login = @ + 1] ELSE rows[i]]

\* authenticate_admin: [ret, rows]; ret is Absent for None, else Some(user)
authenticate_admin(rows, username, password, db_ok, update_ok) ==
    IF ~db_ok THEN [ret |-> Absent, rows |-> rows]
    ELSE LET found == ActiveMatch(rows, username) IN
         IF found = {} THEN [ret |-> Absent, rows |-> rows]
         ELSE LET user == rows[CHOOSE i \in found : \A j \in found : i <= j] IN
              IF verify_password(password, user.password_hash)
              THEN [ret |-> Some(user),
                    rows |-> update_admin_last_login(rows, user.id, update_ok)]
              ELSE [ret |-> Absent, rows |-> rows]

\* the errors list of validate_email
validate_email(email) ==
    Unless(HasChar(email, "@") /\ HasChar(email, "."), "Invalid email format")
    \o Unless(Len(email) <= 100, "Email must be no more than 100 characters long")

-----------------------------------------------------------------------------
(* MainApplication (src/ui/main_application.py) with its LoginWindow and    *)
(* RegisterWindow (src/ui/auth.py)                                          *)

\* no call of the data manager yet
NoAuth ==
    [op |-> "", username |-> <<>>, email |-> <<>>, password |-> <<>>,
     ret |-> Absent, before |-> <<>>]

\* MainApplication.__init__: the main window withdrawn, no user, the login
\* window shown
StartedApp ==
    [current_user |-> Absent, main_ui |-> FALSE, login_open |-> TRUE,
     register_open |-> FALSE, login_result |-> Absent]

\* no run of _attempt_register yet
NoAttempt ==
    [ran |-> FALSE, username |-> <<>>, email |-> <<>>, password |-> <<>>,
     confirm |-> <<>>, errors |-> <<>>, called |-> FALSE]

\* on_login_success: current_user is set, then initialize_main_app sets up
\* the UI and shows the main window
on_login_success(a, user_data) ==
    [a EXCEPT !.current_user = user_data, !.main_ui = TRUE]

LoginOutcome_Unchecked(a, user_data) ==
    [on_login_success(a, user_data) EXCEPT
        !.login_result = user_data, !.login_open = FALSE, !.register_open = FALSE]

\* _attempt_login after authenticate_admin returned user_data: on a user the
\* callback runs and the login window is destroyed, its registration window
\* with it
LoginOutcome(a, user_data) ==
    IF user_data # Absent
    THEN [on_login_success(a, user_data) EXCEPT
             !.login_result = user_data, !.login_open = FALSE,
             !.register_open = FALSE]
    ELSE [a EXCEPT !.login_result = user_data]

\* the first error of a validator's list under the label of its field, if the
\* list is truthy
FirstError(label, found) ==
    IF Len(found) > 0 THEN << <<label, found[1]>> >> ELSE <<>>

\* the errors list _attempt_register builds; password_errors is the pair
\* validate_password_strength returns
RegisterErrors(username, email, password, confirm_password) ==
    (IF username = <<>>
     THEN << <<"username_validation", "Username is required">> >>
     ELSE FirstError("username_validation", validate_username(username)))
    \o (IF email = <<>>
        THEN << <<"email_validation", "Email is required">> >>
        ELSE FirstError("email_validation", validate_email(email)))
    \o (IF password = <<>>
        THEN << <<"password_validation", "Password is required">> >>
        ELSE LET password_errors == validate_password_strength(password, TRUE) IN
             IF Len(password_errors) > 0
             THEN FirstError("password_validation", password_errors)
             ELSE IF password # confirm_password
             THEN << <<"confirm_validation", "Passwords do not match">> >>
             ELSE <<>>)

\* the most rows the admin_users table holds
MaxAdmins == 2

\* the most logins counted in a row's last_login
MaxLogins == 2

UserAda == <<"a","d","a">>
UserAdaUpper == <<"A","d","a">>
UserBob == <<"b","o","b">>
EmailAda == <<"a","@","x",".","y">>
EmailBob == <<"b","@","x",".","y">>
PwStrong == <<"A","a","1","!","~","~","~","~">>
PwWeak == <<"p","w">>

AdminNames == {UserAda, UserAdaUpper, UserBob}
AdminEmails == {EmailAda, EmailBob}
AdminPasswords == {PwStrong, PwWeak}

\* what bcrypt.gensalt() may draw
Salts == {1, 2}

\* the admin_users table when the application starts: empty, or holding an
\* account that was deactivated in the database
StoredAdmins ==
    {<<>>,
     <<AdminRow(1, UserBob, EmailBob, hash_password(PwStrong, 1), <<>>, FALSE, 0)>>}

\* the admin_users tables register_admin leaves for a later start of the
\* application: ada, whatever salt her hash drew, alone or after the
\* deactivated account
RegisteredAdmins ==
    StoredAdmins \cup
    UNION {{ <<AdminRow(1, UserAda, EmailAda, hash_password(PwStrong, s), <<>>, TRUE, 0)>>,
             <<AdminRow(1, UserBob, EmailBob, hash_password(PwStrong, 1), <<>>, FALSE, 0),
               AdminRow(2, UserAda, EmailAda, hash_password(PwStrong, s), <<>>, TRUE, 0)>> } :
           s \in Salts}

\* the record of a call of the data manager
AuthCall(name, username, email, password, ret, before) ==
    [op |-> name, username |-> username, email |-> email,
     password |-> password, ret |-> ret, before |-> before]

\* no last_login above MaxLogins
LoginsCounted(rows) == \A i \in 1..Len(rows) : rows[i].last_login <= MaxLogins

\* a caller registers an admin
RegisterAdmin ==
    /\ \E username \in AdminNames, email \in AdminEmails,
          password \in AdminPasswords, salt \in Salts, db_ok \in BOOLEAN :
        LET r == register_admin(admin_users, username, email, password, <<>>,
                                salt, db_ok) IN
        /\ Len(r.rows) <= MaxAdmins
        /\ admin_users' = r.rows
        /\ auth' = AuthCall("register_admin", username, email, password,
                            r.ret, admin_users)
    /\ UNCHANGED <<callVars, now, formVars, app, attempt>>

\* a caller authenticates an admin
AuthenticateAdmin ==
    /\ \E username \in AdminNames, password \in AdminPasswords,
          db_ok \in BOOLEAN, update_ok \in BOOLEAN :
        LET r == authenticate_admin(admin_users, username, password, db_ok,
                                    update_ok) IN
        /\ LoginsCounted(r.rows)
        /\ admin_users' = r.rows
        /\ auth' = AuthCall("authenticate_admin", username, <<>>, password,
                            r.ret, admin_users)
    /\ UNCHANGED <<callVars, now, formVars, app, attempt>>

\* what the user may type in the login window
LoginNames == {<<>>, UserAda, <<" ","A","d","a">>, UserBob}
LoginPasswords == {<<>>, PwStrong, PwWeak}

\* LoginWindow._attempt_login: the Login button or Return
AttemptLogin ==
    /\ app.login_open
    /\ \E username_var \in LoginNames, password \in LoginPasswords,
          db_ok \in BOOLEAN, update_ok \in BOOLEAN :
        LET username == Strip(username_var)
            r == authenticate_admin(admin_users, username, password, db_ok,
                                    update_ok)
        IN  IF username = <<>> \/ password = <<>>
            THEN UNCHANGED <<admin_users, auth, app>>
            ELSE /\ LoginsCounted(r.rows)
                 /\ admin_users' = r.rows
                 /\ auth' = AuthCall("authenticate_admin", username, <<>>,
                                     password, r.ret, admin_users)
                 /\ app' = LoginOutcome(app, r.ret)
    /\ UNCHANGED <<callVars, now, formVars, attempt>>

\* LoginWindow._show_register: the Register button
ShowRegister ==
    /\ app.login_open
    /\ app' = [app EXCEPT !.register_open = TRUE]
    /\ UNCHANGED <<callVars, now, formVars, admin_users, auth, attempt>>

\* Escape in the login window destroys it, and its registration window
CloseLogin ==
    /\ app.login_open
    /\ app' = [app EXCEPT !.login_open = FALSE, !.register_open = FALSE]
    /\ UNCHANGED <<callVars, now, formVars, admin_users, auth, attempt>>

\* Escape or Cancel in the registration window
CloseRegister ==
    /\ app.register_open
    /\ app' = [app EXCEPT !.register_open = FALSE]
    /\ UNCHANGED <<callVars, now, formVars, admin_users, auth, attempt>>

\* what the user may type in the registration window
RegisterNames == {<<>>, UserAda, <<"_","a">>}
RegisterEmails == {<<>>, EmailAda, <<"a","b">>}
RegisterPasswords == {<<>>, PwStrong, PwWeak}

\* one run of _attempt_register with its errors list; `called` tells whether
\* data_manager.register_admin is reached
AttemptRun(username, email, password, confirm_password, errors) ==
    [ran |-> TRUE, username |-> username, email |-> email,
     password |-> password, confirm |-> confirm_password,
     errors |-> errors, called |-> errors = <<>>]

\* RegisterWindow._attempt_register: the Create Account button or Return
AttemptRegister ==
    /\ app.register_open
    /\ \E username \in RegisterNames, email \in RegisterEmails,
          password \in RegisterPasswords, confirm_password \in AdminPasswords,
          salt \in Salts, db_ok \in BOOLEAN :
        LET r == register_admin(admin_users, username, email, password, <<>>,
                                salt, db_ok)
        IN  /\ attempt' = AttemptRun(username, email, password, confirm_password,
                                     RegisterErrors(username, email, password,
                                                    confirm_password))
            /\ IF attempt'.called
               THEN /\ Len(r.rows) <= MaxAdmins
                    /\ admin_users' = r.rows
                    /\ auth' = AuthCall("register_admin", username, email,
                                        password, r.ret, admin_users)
                    /\ app' = IF r.ret THEN [app EXCEPT !.register_open = FALSE]
                              ELSE app
               ELSE UNCHANGED <<admin_users, auth, app>>
    /\ UNCHANGED <<callVars, now, formVars>>

\* the games table when the application starts
StoredGames == {<<>>, <<Game(1, TeamAb, TeamCd, PremierLeague, DateToday)>>}

Init ==
    /\ pc = "idle"
    /\ op = ""
    /\ args = <<>>
    /\ out = Return(<<>>)
    /\ now \in Clocks
    /\ form = EmptyForm
    /\ games = <<>>
    /\ submit = NoSubmit
    /\ admin_users = <<>>
    /\ auth = NoAuth
    /\ app = StartedApp
    /\ attempt = NoAttempt

Next ==
    \/ CallValidateTeamName
    \/ CallValidateLeagueName
    \/ CallValidateDate
    \/ CallValidateScore
    \/ CallValidateCompatibility
    \/ CallValidateUniqueGame
    \/ CallValidateGameData
    \/ CallValidateBatchGames
    \/ CallValidatePasswordStrength
    \/ CallValidateUsername
    \/ CallGetValidationSummary

\* the validators, each called once on inputs of the pools
Spec == Init /\ [][Next]_vars

FormInit ==
    /\ pc = "idle"
    /\ op = ""
    /\ args = <<>>
    /\ out = Return(<<>>)
    /\ now \in Clocks
    /\ form = EmptyForm
    /\ games \in StoredGames
    /\ submit = NoSubmit
    /\ admin_users = <<>>
    /\ auth = NoAuth
    /\ app = StartedApp
    /\ attempt = NoAttempt

FormNext ==
    \/ EditField
    \/ AddGame
    \/ ClearForm

\* the game entry form in front of the games table
FormSpec == FormInit /\ [][FormNext]_vars

AuthInit ==
    /\ pc = "idle"
    /\ op = ""
    /\ args = <<>>
    /\ out = Return(<<>>)
    /\ now \in Clocks
    /\ form = EmptyForm
    /\ games = <<>>
    /\ submit = NoSubmit
    /\ admin_users \in StoredAdmins
    /\ auth = NoAuth
    /\ app = StartedApp
    /\ attempt = NoAttempt

\* the admin store under the calls of register_admin
StoreSpec == AuthInit /\ [][RegisterAdmin]_vars

\* the application starts on a table of admins registered earlier
LoginInit ==
    /\ pc = "idle"
    /\ op = ""
    /\ args = <<>>
    /\ out = Return(<<>>)
    /\ now \in Clocks
    /\ form = EmptyForm
    /\ games = <<>>
    /\ submit = NoSubmit
    /\ admin_users \in RegisteredAdmins
    /\ auth = NoAuth
    /\ app = StartedApp
    /\ attempt = NoAttempt

AuthNext ==
    \/ AuthenticateAdmin
    \/ AttemptLogin
    \/ CloseLogin

\* the admin store under the calls of authenticate_admin, with the login
\* window of the application in front of it
AuthSpec == LoginInit /\ [][AuthNext]_vars

RegisterNext ==
    \/ ShowRegister
    \/ AttemptRegister
    \/ CloseRegister
    \/ CloseLogin

\* the registration window, opened from the login window, in front of the
\* admin store
RegisterSpec == AuthInit /\ [][RegisterNext]_vars

-----------------------------------------------------------------------------
(* Properties                                                               *)

\* a failing result of severity 'error'
IsError(r) == ~r.is_valid /\ r.severity = "error"

\* all six required fields are present and non-empty
Complete(game_data) ==
    \A i \in 1..Len(required_fields) :
        /\ required_fields[i] \in DOMAIN game_data
        /\ game_data[required_fields[i]] # <<>>

\* validate_game_data has been called, on a complete record
CompleteCall ==
    pc = "done" /\ op = "validate_game_data" /\ Complete(args.game_data)

\* validate_unique_game has been called
UniqueCall == pc = "done" /\ op = "validate_unique_game"

\* game g is the same fixture as teams t1, t2 in league lg on date d: the same
\* league, the same date and the same pair of participants in either order
SameFixture(g, t1, t2, lg, d) ==
    /\ g.league = lg
    /\ g.date = d
    /\ <<g.team1, g.team2>> \in {<<t1, t2>>, <<t2, t1>>}

\* C1: validate_game_data never raises: on a complete record with an
\* existing-games list supplied (the empty list included), with or without an
\* exclude id, the call returns a list instead of ending in an exception.
C1_NeverRaises ==
    (CompleteCall /\ args.existing_games # Absent) => out.exc = ""

\* C2: duplicate detection of validate_game_data is order-insensitive: when the
\* existing-games list holds a game of the same league and date whose teams are
\* the candidate's teams swapped, the returned list holds a failing duplicate
\* result of severity error.
C2_SwappedDuplicateFlagged ==
    (/\ CompleteCall
     /\ args.existing_games # Absent
     /\ \E i \in 1..Len(args.existing_games[1]) :
           LET g == args.existing_games[1][i] IN
           /\ g.league = args.game_data["league"]
           /\ g.date = args.game_data["date"]
           /\ g.team1 = args.game_data["team2"]
           /\ g.team2 = args.game_data["team1"])
    => /\ out.exc = ""
       /\ \E k \in 1..Len(out.ret) :
             IsError(out.ret[k]) /\ out.ret[k].field = "general"

\* C3: without an exclude id, validate_unique_game returns is_valid = false if
\* and only if some existing game has the same league, the same date and the
\* same pair of participants in either order.
C3_UniqueIffNoSameFixture ==
    (UniqueCall /\ args.exclude_id = NoneId)
    => (out.ret.is_valid
        <=> ~\E i \in 1..Len(args.existing_games) :
               SameFixture(args.existing_games[i], args.team1, args.team2,
                           args.league, args.date))

\* C3 witness: a candidate reported as duplicate because of a game with the
\* teams in the reverse order only
C3_Witness ==
    /\ UniqueCall /\ args.exclude_id = NoneId
    /\ args.team1 # args.team2
    /\ ~out.ret.is_valid
    /\ \A i \in 1..Len(args.existing_games) :
          SameFixture(args.existing_games[i], args.team1, args.team2,
                      args.league, args.date)
          => args.existing_games[i].team1 = args.team2

\* C4: with an exclude id >= 0, the existing game of that id is left out of
\* the comparison: a candidate that matches only that game is reported unique.
C4_ExcludedIdLeftOut ==
    (/\ UniqueCall
     /\ args.exclude_id # NoneId /\ args.exclude_id >= 0
     /\ \A i \in 1..Len(args.existing_games) :
           SameFixture(args.existing_games[i], args.team1, args.team2,
                       args.league, args.date)
           => args.existing_games[i].id = args.exclude_id)
    => out.ret.is_valid

\* the required fields that are absent or empty in the record of the call
MissingFields ==
    {f \in {required_fields[i] : i \in 1..Len(required_fields)} :
        f \notin DOMAIN args.game_data \/ args.game_data[f] = <<>>}

\* the place of a field in the order sport, league, team1, team2, score, date
FieldRank(f) == CHOOSE i \in 1..Len(required_fields) : required_fields[i] = f

\* C5: validate_game_data short-circuits on missing required fields: when at
\* least one required field is absent or empty, the returned list is exactly
\* one failing '<field> is required' result per missing field, in field order,
\* and nothing else.
C5_ShortCircuit ==
    (pc = "done" /\ op = "validate_game_data" /\ MissingFields # {})
    => /\ out.exc = ""
       /\ Len(out.ret) = Cardinality(MissingFields)
       /\ \A k \in 1..Len(out.ret) :
             /\ out.ret[k].field \in MissingFields
             /\ out.ret[k].message = out.ret[k].field \o " is required"
             /\ IsError(out.ret[k])
       /\ \A k \in 1..(Len(out.ret) - 1) :
             FieldRank(out.ret[k].field) < FieldRank(out.ret[k + 1].field)

\* C5 witness: a call with an absent field and an empty field, whose score is
\* present and malformed, and an existing-games list supplied
C5_Witness ==
    /\ pc = "done" /\ op = "validate_game_data"
    /\ "sport" \notin DOMAIN args.game_data
    /\ "league" \in DOMAIN args.game_data /\ args.game_data["league"] = <<>>
    /\ "score" \in DOMAIN args.game_data /\ args.game_data["score"] = ScoreWords
    /\ args.existing_games # Absent
    /\ Len(out.ret) = 2

\* the results validate_game_data returned on a complete record, called
\* without an existing-games list
ReturnedComplete ==
    CompleteCall /\ args.existing_games = Absent /\ out.exc = ""

OutResults ==
    IF op = "validate_game_data" THEN out.ret
    ELSE IF op = "validate_batch_games" THEN out.ret[1]
    ELSE IF op \in {"validate_password_strength", "validate_username",
                    "get_validation_summary"} THEN <<>>
    ELSE <<out.ret>>

\* C7: no ValidationResult a validator produces has is_valid = true together
\* with severity 'error'.
C7_NoPassingError ==
    pc = "done"
    => \A k \in 1..Len(OutResults) :
          ~(OutResults[k].is_valid /\ OutResults[k].severity = "error")

\* C8: data_manager.add_game is not called in a run of GameForm.add_game whose
\* validation produced a failing result of severity 'error', whatever the
\* answer to the warnings dialog.
C8_ErrorsBlockAddGame ==
    (/\ submit.ran
     /\ \E k \in 1..Len(submit.results) : IsError(submit.results[k]))
    => ~submit.called

\* C8 witness: a run of the handler on a form with an empty field, which
\* ended with two or more errors and without the call
C8_Witness ==
    /\ submit.ran
    /\ submit.exc = ""
    /\ Len(submit.errors) >= 2
    /\ submit.game_data.team1 # <<>>
    /\ ~submit.called

\* C9: a complete candidate whose fields each pass their validator, with two
\* different participants and a league compatible with the sport, validated
\* against an empty existing-games list, yields a list with no failing result
\* of severity 'error'.
C9_CleanRecordNoErrors ==
    (/\ CompleteCall
     /\ args.existing_games = Some(<<>>)
     /\ LET gd == args.game_data IN
        /\ validate_team_name(gd["team1"], gd["sport"]).is_valid
        /\ validate_team_name(gd["team2"], gd["sport"]).is_valid
        /\ validate_league_name(gd["league"]).is_valid
        /\ validate_score(gd["score"], gd["sport"]).is_valid
        /\ validate_date(gd["date"], now).is_valid
        /\ Lower(Strip(gd["team1"])) # Lower(Strip(gd["team2"]))
        /\ validate_league_sport_compatibility(gd["league"], gd["sport"]).is_valid)
    => /\ out.exc = ""
       /\ \A k \in 1..Len(out.ret) : ~IsError(out.ret[k])

\* a and b are the same string once surrounding whitespace is trimmed and
\* letter case is ignored
EqualIgnoringCase(a, b) ==
    LET x == Strip(a)
        y == Strip(b)
    IN  /\ Len(x) = Len(y)
        /\ \A i \in 1..Len(x) : LowerChar(x[i]) = LowerChar(y[i])

\* C10: for a complete record, the list validate_game_data returns holds a
\* failing error result on field 'team2' if and only if team1 and team2 are
\* equal ignoring letter case, after trimming surrounding whitespace.  The
\* calls that return a list are those made without an existing-games list.
C10_SelfMatchIff ==
    (CompleteCall /\ args.existing_games = Absent)
    => /\ out.exc = ""
       /\ (\E k \in 1..Len(out.ret) :
              IsError(out.ret[k]) /\ out.ret[k].field = "team2")
          <=> EqualIgnoringCase(args.game_data["team1"], args.game_data["team2"])

\* C10 witness: two names that differ in letter case and surrounding
\* whitespace, reported on team2
C10_Witness ==
    /\ ReturnedComplete
    /\ args.game_data["team1"] # args.game_data["team2"]
    /\ Strip(args.game_data["team1"]) # Strip(args.game_data["team2"])
    /\ \E k \in 1..Len(out.ret) :
          IsError(out.ret[k]) /\ out.ret[k].field = "team2"

\* the sports LEAGUE_SPORT_MAPPING gives for a league (none or one)
MappedSports(league) ==
    {LEAGUE_SPORT_MAPPING[i][2] :
        i \in {k \in 1..Len(LEAGUE_SPORT_MAPPING) :
                  LEAGUE_SPORT_MAPPING[k][1] = league}}

\* validate_league_sport_compatibility has been called
CompatibilityCall == pc = "done" /\ op = "validate_league_sport_compatibility"

\* C11: validate_league_sport_compatibility never returns severity 'error' on
\* a failing result: a league of LEAGUE_SPORT_MAPPING whose mapped sport
\* differs from the supplied sport gets a failing result of severity 'warning'
\* on field 'league'; a league outside the mapping, and a mapped league with
\* the matching sport, get is_valid = true.
C11_CompatibilityWarnsOnly ==
    CompatibilityCall
    => /\ ~IsError(out.ret)
       /\ IF \E s \in MappedSports(args.league) : s # args.sport
          THEN /\ ~out.ret.is_valid
               /\ out.ret.severity = "warning"
               /\ out.ret.field = "league"
          ELSE out.ret.is_valid

\* C11 witness: a Basketball league checked against Soccer, reported as a
\* failing warning on 'league'
C11_Witness ==
    /\ CompatibilityCall
    /\ args.league = NBA
    /\ args.sport = Soccer
    /\ ~out.ret.is_valid
    /\ out.ret.severity = "warning"

\* validate_score has been called
ScoreCall == pc = "done" /\ op = "validate_score"

\* s is one or more digits, a hyphen, one or more digits: \d+-\d+
WellFormedScore(s) ==
    LET parts == Split(s, "-") IN
    /\ Len(parts) = 2
    /\ \A k \in 1..2 : Len(parts[k]) >= 1 /\ AllDigits(parts[k])

\* C12: for every sport, known or not, a score string that is not one or more
\* digits, a hyphen and one or more digits (inner spaces and a leading sign
\* included) gets is_valid = false with field 'score' from validate_score.
C12_MalformedScoreRejected ==
    (ScoreCall /\ ~WellFormedScore(args.score_str))
    => ~out.ret.is_valid /\ out.ret.field = "score"

\* the two numbers of a well-formed score
ScoreA(s) == DigitsVal(Split(s, "-")[1])
ScoreB(s) == DigitsVal(Split(s, "-")[2])

\* C13: for sport 'Soccer', validate_score returns is_valid = true for every
\* score 'a-b' of non-negative integers, and the result carries severity
\* 'warning' exactly when a > 30 or b > 30.
C13_SoccerAlwaysValid ==
    (ScoreCall /\ args.sport = Soccer /\ WellFormedScore(args.score_str))
    => /\ out.ret.is_valid
       /\ out.ret.severity = "warning"
          <=> (ScoreA(args.score_str) > 30 \/ ScoreB(args.score_str) > 30)

\* C14: for sport 'Basketball', validate_score never blocks a well-formed
\* score: every 'a-b' of non-negative integers is is_valid = true, and a score
\* with a < 30 or b < 30 (and a + b > 0) is reported with severity 'warning',
\* never 'error'.
C14_BasketballNeverBlocks ==
    (ScoreCall /\ args.sport = Basketball /\ WellFormedScore(args.score_str))
    => /\ out.ret.is_valid
       /\ ((ScoreA(args.score_str) < 30 \/ ScoreB(args.score_str) < 30)
           /\ ScoreA(args.score_str) + ScoreB(args.score_str) > 0)
          => out.ret.severity = "warning"

\* validate_team_name has been called
TeamNameCall == pc = "done" /\ op = "validate_team_name"

\* C15: for every sport value, the sports without a name pattern included,
\* validate_team_name returns is_valid = false whenever the name contains one
\* of the characters < > ; { }.
C15_DenylistRejected ==
    (TeamNameCall /\ \E c \in {"<", ">", ";", "{", "}"} : HasChar(args.team_name, c))
    => ~out.ret.is_valid

\* validate_date has been called
DateCall == pc = "done" /\ op = "validate_date"

\* s is YYYY-MM-DD, ten characters, naming a day of the calendar
WellFormedDate(s) ==
    /\ Len(s) = 10
    /\ s[5] = "-" /\ s[8] = "-"
    /\ \A i \in {1, 2, 3, 4, 6, 7, 9, 10} : IsDigit(s[i])
    /\ LET y == DigitsVal(SubSeq(s, 1, 4))
           m == DigitsVal(SubSeq(s, 6, 7))
           d == DigitsVal(SubSeq(s, 9, 10))
       IN  /\ y >= 1 /\ m >= 1 /\ m <= 12
           /\ d >= 1 /\ d <= DaysInMonth(y, m)

\* the day number of a well-formed date
DayOf(s) ==
    DaysFromCivil(DigitsVal(SubSeq(s, 1, 4)), DigitsVal(SubSeq(s, 6, 7)),
                  DigitsVal(SubSeq(s, 9, 10)))

\* midnight of day number n is not earlier than 3650 days before the clock and
\* not later than 365 days after it
InWindow(n, clock) ==
    /\ n > clock.day - 3650 \/ (n = clock.day - 3650 /\ clock.tod = 0)
    /\ n <= clock.day + 365

\* C16: validate_date returns is_valid = true for every well-formed
\* YYYY-MM-DD date within the window (not earlier than 3650 days before now,
\* not later than 365 days after now), and is_valid = false with field 'date'
\* for every well-formed date outside it.
C16_DateWindow ==
    (DateCall /\ WellFormedDate(args.date_str))
    => IF InWindow(DayOf(args.date_str), now)
       THEN out.ret.is_valid
       ELSE ~out.ret.is_valid /\ out.ret.field = "date"

\* C16 witness: the day 3650 days before today, validated later than midnight,
\* is earlier than the start of the window and rejected
C16_Witness ==
    /\ DateCall
    /\ WellFormedDate(args.date_str)
    /\ DayOf(args.date_str) = now.day - 3650
    /\ now.tod = 1
    /\ ~out.ret.is_valid

\* validate_batch_games has been called
BatchCall == pc = "done" /\ op = "validate_batch_games"

\* the i-th candidate of the batch is complete and, validated alone, has no
\* failing result of severity 'error'
ErrorFree(i) ==
    /\ Complete(args.games_data[i])
    /\ LET alone == validate_game_data(args.games_data[i], Absent, NoneId, now).ret
       IN  \A k \in 1..Len(alone) : ~IsError(alone[k])

\* a duplicate finding of the batch that names games i and j
DuplicateFinding(r, i, j) ==
    /\ ~r.is_valid
    /\ r.message = "Duplicate games found between games " \o ToString(i)
                       \o " and " \o ToString(j)

\* C17: for a batch of two complete, individually error-free candidates with
\* identical team1, team2, league and date, validate_batch_games reports a
\* duplicate finding that involves both candidates and returns a valid_count
\* that excludes both of them (valid_count = 0).
C17_BatchDuplicateExcludesBoth ==
    (/\ BatchCall
     /\ Len(args.games_data) = 2
     /\ ErrorFree(1) /\ ErrorFree(2)
     /\ \A f \in {"team1", "team2", "league", "date"} :
           args.games_data[1][f] = args.games_data[2][f])
    => /\ \E k \in 1..Len(out.ret[1]) : DuplicateFinding(out.ret[1][k], 1, 2)
       /\ out.ret[2] = 0

\* C18: validate_batch_games detects duplicates within the batch with the
\* order-insensitive rule of single-record detection: for every pair of
\* candidates i < j with the same league and date whose participant pairs are
\* equal in either order, the result list holds a duplicate finding for the
\* pair.
C18_BatchOrderInsensitive ==
    BatchCall
    => \A i, j \in 1..Len(args.games_data) :
          (/\ i < j
           /\ Complete(args.games_data[i]) /\ Complete(args.games_data[j])
           /\ SameFixture(args.games_data[i], args.games_data[j]["team1"],
                          args.games_data[j]["team2"],
                          args.games_data[j]["league"],
                          args.games_data[j]["date"]))
          => \E k \in 1..Len(out.ret[1]) : DuplicateFinding(out.ret[1][k], i, j)

\* validate_password_strength has been called
PasswordCall == pc = "done" /\ op = "validate_password_strength"

\* the message of each rule, in the order of the rules
RuleMessages ==
    <<"Password must be at least 8 characters long",
      "Password must contain at least one uppercase letter",
      "Password must contain at least one lowercase letter",
      "Password must contain at least one number",
      "Password must contain at least one special character">>

\* rule k is met by password pw
RuleMet(k, pw) ==
    CASE k = 1 -> Len(pw) >= 8
      [] k = 2 -> \E i \in 1..Len(pw) : IsUpper(pw[i])
      [] k = 3 -> \E i \in 1..Len(pw) : IsLower(pw[i])
      [] k = 4 -> \E i \in 1..Len(pw) : IsDigit(pw[i])
      [] k = 5 -> \E i \in 1..Len(pw) : pw[i] \in SpecialChars

\* the rule a message belongs to
RuleOf(message) == CHOOSE k \in 1..5 : RuleMessages[k] = message

\* C19: the error list of validate_password_strength holds exactly one message
\* for each unmet rule among length >= 8, an uppercase letter, a lowercase
\* letter, a digit and a symbol of the punctuation set, in that order, and is
\* empty if and only if all five rules are met.
C19_OneMessagePerUnmetRule ==
    PasswordCall
    => LET errors == out.ret[1]
           unmet == {k \in 1..5 : ~RuleMet(k, args.password)}
       IN  /\ Len(errors) = Cardinality(unmet)
           /\ \A i \in 1..Len(errors) :
                 \E k \in unmet : errors[i] = RuleMessages[k]
           /\ \A i \in 1..(Len(errors) - 1) :
                 RuleOf(errors[i]) < RuleOf(errors[i + 1])
           /\ errors = <<>> <=> unmet = {}

\* C19 witness: 'abc12345' yields exactly the uppercase and the
\* special-character messages
C19_Witness ==
    /\ PasswordCall
    /\ args.password = PasswordAbc
    /\ out.ret[1] = <<RuleMessages[2], RuleMessages[5]>>

\* C20: validate_password_strength supports warn-but-proceed: with
\* allow_weak = true it reports can_proceed = true for every password while
\* still returning all unmet-rule messages, and with allow_weak = false it
\* reports can_proceed = true if and only if the unmet-rule list is empty.
C20_WarnButProceed ==
    PasswordCall
    => /\ out.ret[1] = SelectSeq(RuleMessages,
                                 LAMBDA m : ~RuleMet(RuleOf(m), args.password))
       /\ IF args.allow_weak THEN out.ret[2]
          ELSE out.ret[2] <=> out.ret[1] = <<>>

\* C20 witness: a weak password, allowed, proceeds with its messages returned
C20_Witness ==
    /\ PasswordCall
    /\ args.allow_weak
    /\ Len(out.ret[1]) >= 2
    /\ out.ret[2]

\* validate_username has been called
UsernameCall == pc = "done" /\ op = "validate_username"

\* C21: validate_username returns an empty error list if and only if the
\* username has length between 3 and 50, consists only of letters, digits,
\* underscores and hyphens, and neither starts nor ends with an underscore or
\* hyphen.
C21_UsernameAcceptedIff ==
    UsernameCall
    => LET u == args.username IN
       out.ret = <<>>
       <=> /\ Len(u) >= 3 /\ Len(u) <= 50
           /\ \A i \in 1..Len(u) :
                 IsAlpha(u[i]) \/ IsDigit(u[i]) \/ u[i] \in {"_", "-"}
           /\ u[1] \notin {"_", "-"}
           /\ u[Len(u)] \notin {"_", "-"}

\* C21 witness: a name with an underscore and a hyphen inside is accepted
C21_Witness ==
    /\ UsernameCall
    /\ args.username = UserMixed
    /\ out.ret = <<>>

\* get_validation_summary has been called
SummaryCall == pc = "done" /\ op = "get_validation_summary"

\* how many results of the list satisfy P
CountOf(results, P(_)) == Cardinality({i \in 1..Len(results) : P(results[i])})

\* C22: get_validation_summary is a partition of the result list: 'total' is
\* the list length and, for every list whose severities are in {error,
\* warning, info}, errors + warnings + info + valid = total, each result being
\* counted in exactly one bucket.
C22_SummaryPartition ==
    SummaryCall
    => LET rs == args.results
           s == out.ret
       IN  /\ s.total = Len(rs)
           /\ (\A i \in 1..Len(rs) : rs[i].severity \in {"error", "warning", "info"})
              => /\ s.errors + s.warnings + s.info + s.valid = s.total
                 /\ s.valid = CountOf(rs, LAMBDA r : r.is_valid)
                 /\ s.errors = CountOf(rs, LAMBDA r : ~r.is_valid /\ r.severity = "error")
                 /\ s.warnings = CountOf(rs, LAMBDA r : ~r.is_valid /\ r.severity = "warning")
                 /\ s.info = CountOf(rs, LAMBDA r : ~r.is_valid /\ r.severity = "info")

\* C22 witness: a list with a passing warning, a failing warning and a failing
\* error, counted one each
C22_Witness ==
    /\ SummaryCall
    /\ Len(args.results) = 3
    /\ \E i \in 1..3 : args.results[i].is_valid /\ args.results[i].severity = "warning"
    /\ out.ret.valid = 1 /\ out.ret.warnings = 1 /\ out.ret.errors = 1

\* the record of the last submission has all six fields filled in and valid,
\* two distinct participants, a league compatible with the sport, no duplicate
\* among the stored rows, and nothing to warn about
CleanSubmission ==
    /\ submit.ran
    /\ Complete(submit.game_data)
    /\ LET gd == submit.game_data
           checks == <<validate_team_name(gd.team1, gd.sport),
                       validate_team_name(gd.team2, gd.sport),
                       validate_league_name(gd.league),
                       validate_league_sport_compatibility(gd.league, gd.sport),
                       validate_score(gd.score, gd.sport),
                       validate_date(gd.date, now)>>
       IN  /\ \A k \in 1..Len(checks) :
                 checks[k].is_valid /\ checks[k].severity # "warning"
           /\ ~EqualIgnoringCase(gd.team1, gd.team2)

\* C26: when GameForm.add_game is triggered with all six fields filled in,
\* every field valid, distinct participants, a compatible league, no duplicate
\* in the store and no warnings, the submission reaches data_manager.add_game
\* with that record.
C26_CleanSubmissionPersisted ==
    (CleanSubmission /\ games = <<>>) => submit.called

\* C28: the valid_count validate_batch_games returns satisfies
\* 0 <= valid_count <= number of candidates, for every batch.
C28_ValidCountInRange ==
    BatchCall => out.ret[2] >= 0 /\ out.ret[2] <= Len(args.games_data)

\* C30: every failing result of the list validate_game_data returns names, in
\* its field, the record key it concerns (sport, league, team1, team2, score,
\* date) or the whole-record sentinel 'general'.
C30_FailingFieldIsRecordKey ==
    (pc = "done" /\ op = "validate_game_data" /\ out.exc = "")
    => \A k \in 1..Len(out.ret) :
          ~out.ret[k].is_valid
          => out.ret[k].field \in
                {"sport", "league", "team1", "team2", "score", "date", "general"}

\* register_admin was the last call of the data manager
RegisterCall == auth.op = "register_admin"

\* authenticate_admin was the last call of the data manager
AuthenticateCall == auth.op = "authenticate_admin"

\* the hashes hash_password may give for a password
HashesOf(password) == {hash_password(password, s) : s \in Salts}

\* C23: after any sequence of register_admin calls, every row of admin_users
\* holds in its password field only the output of hash_password applied to
\* the supplied password; the plaintext password is never written to the
\* store.
C23_OnlyHashStored ==
    /\ \A i \in 1..Len(admin_users) :
          /\ IsHash(admin_users[i].password_hash)
          /\ \E p \in AdminPasswords : admin_users[i].password_hash \in HashesOf(p)
    /\ (RegisterCall /\ auth.ret)
       => /\ IsHash(admin_users[Len(admin_users)].password_hash)
          /\ admin_users[Len(admin_users)].password_hash \in HashesOf(auth.password)

\* C23 witness: two admins registered with the same password, whose hashes
\* differ by their salt
C23_Witness ==
    /\ RegisterCall /\ auth.ret
    /\ Len(admin_users) = 2
    /\ Len(auth.before) = 1
    /\ admin_users[2].password_hash \in HashesOf(auth.password)
    /\ verify_password(auth.password, admin_users[1].password_hash)
    /\ admin_users[1].password_hash # admin_users[2].password_hash

\* C24: after any sequence of register_admin calls no two admin rows share a
\* username or an email: a call whose username or email already exists
\* returns False and leaves the admin store unchanged, and a call returning
\* True adds exactly one row.
C24_UniqueAdmins ==
    /\ \A i, j \in 1..Len(admin_users) :
          i # j => /\ admin_users[i].username # admin_users[j].username
                   /\ admin_users[i].email # admin_users[j].email
    /\ RegisterCall
       => /\ (\E i \in 1..Len(auth.before) :
                 \/ auth.before[i].username = auth.username
                 \/ auth.before[i].email = auth.email)
             => ~auth.ret
          /\ ~auth.ret => admin_users = auth.before
          /\ auth.ret
             => /\ Len(admin_users) = Len(auth.before) + 1
                /\ SubSeq(admin_users, 1, Len(auth.before)) = auth.before
                /\ admin_users[Len(admin_users)].username = auth.username
                /\ admin_users[Len(admin_users)].email = auth.email

\* C24 witness: a call with a new username and the email of an existing row
\* is refused
C24_Witness ==
    /\ RegisterCall /\ ~auth.ret
    /\ Len(auth.before) = 1
    /\ ~SqlEq(auth.before[1].username, auth.username)
    /\ auth.before[1].email = auth.email
    /\ admin_users = auth.before

\* the rows of `rows` that are active, carry a username equal to `username`
\* under the comparison `same`, and whose hash verify_password accepts
Accepted(rows, username, password, same(_, _)) ==
    {i \in 1..Len(rows) :
        /\ same(rows[i].username, username)
        /\ rows[i].is_active
        /\ verify_password(password, rows[i].password_hash)}

SameString(a, b) == a = b

\* C25 as stated: authenticate_admin returns the user record only when an
\* active admin with exactly that username exists and verify_password accepts
\* the supplied password against the stored hash; in every other case it
\* returns None and does not update last_login.
C25_ExactUsername ==
    AuthenticateCall
    => /\ auth.ret # Absent
          => \E i \in Accepted(auth.before, auth.username, auth.password,
                               SameString) :
                auth.ret = Some(auth.before[i])
       /\ Accepted(auth.before, auth.username, auth.password, SameString) = {}
          => /\ auth.ret = Absent
             /\ admin_users = auth.before

\* C25 amended: authenticate_admin returns the user record only when an
\* active admin exists whose username equals the supplied one under the
\* collation of the table (letter case and trailing spaces ignored) and
\* verify_password accepts the supplied password against the stored hash; in
\* every other case it returns None and does not update last_login.
C25_CollationUsername ==
    AuthenticateCall
    => /\ auth.ret # Absent
          => \E i \in Accepted(auth.before, auth.username, auth.password,
                               SqlEq) :
                auth.ret = Some(auth.before[i])
       /\ Accepted(auth.before, auth.username, auth.password, SqlEq) = {}
          => /\ auth.ret = Absent
             /\ admin_users = auth.before
       /\ auth.ret = Absent => admin_users = auth.before

\* C25 witness: the admin registered as "ada" is returned to a login as "Ada"
C25_Witness ==
    /\ AuthenticateCall
    /\ auth.username = UserAdaUpper
    /\ auth.ret # Absent
    /\ auth.ret[1].username = UserAda
    /\ \E i \in 1..Len(admin_users) :
          admin_users[i].last_login > auth.before[i].last_login

\* C25 witness of the refusals: an inactive admin with the right password is
\* turned away and no last_login moves
C25_WitnessInactive ==
    /\ AuthenticateCall
    /\ auth.ret = Absent
    /\ \E i \in 1..Len(auth.before) :
          /\ auth.before[i].username = auth.username
          /\ ~auth.before[i].is_active
          /\ verify_password(auth.password, auth.before[i].password_hash)
    /\ admin_users = auth.before

\* C29: the main window is initialised and shown only after a login attempt
\* for which authenticate_admin returned a user, and wherever the main UI
\* exists current_user is that authenticated user and not None.
C29_MainUiNeedsLogin ==
    app.main_ui
    => /\ app.login_result # Absent
       /\ app.current_user # Absent
       /\ app.current_user = app.login_result
       /\ ~app.login_open
       /\ \E i \in 1..Len(admin_users) :
             /\ admin_users[i].id = app.current_user[1].id
             /\ admin_users[i].username = app.current_user[1].username
             /\ admin_users[i].is_active
             /\ admin_users[i].password_hash = app.current_user[1].password_hash

\* C29 witness: the main UI exists for the admin who logged in
C29_Witness ==
    /\ app.main_ui
    /\ app.current_user # Absent
    /\ app.current_user[1].username = UserAda
    /\ ~app.login_open

\* a registration attempt whose four inputs are all valid
ValidAttempt ==
    /\ attempt.ran
    /\ attempt.username # <<>> /\ validate_username(attempt.username) = <<>>
    /\ attempt.email # <<>> /\ validate_email(attempt.email) = <<>>
    /\ attempt.password # <<>> /\ PasswordErrors(attempt.password) = <<>>
    /\ attempt.confirm = attempt.password

\* C27: in the registration window, an attempt with a valid username, a valid
\* email, a password that meets every strength rule and a matching
\* confirmation passes validation and calls data_manager.register_admin.
C27_ValidAttemptRegisters ==
    ValidAttempt => attempt.errors = <<>> /\ attempt.called

====
